---- MODULE Spec2Model ----
(***************************************************************************)
(* Model of the admin dashboard page src/app/admin/page.tsx.               *)
(*                                                                         *)
(* One action is one task of the browser event loop: an event handler or   *)
(* timer callback run up to its first await on the network or the wallet,  *)
(* or the continuation that runs when such an await is answered.           *)
(* Continuations that only wait for an already settled promise run in the  *)
(* same task (microtasks) and are part of the same action.                 *)
(*                                                                         *)
(* The chain, the status endpoint, the wallet connector and the user are   *)
(* the environment: their answers are drawn from small sets.               *)
(* openContractCall (@stacks/connect) calls onFinish or onCancel without   *)
(* awaiting them and then resolves; it rejects only before the wallet has  *)
(* answered.  Nothing in the page keeps a second submission from being     *)
(* opened while an earlier one awaits the wallet or is polled: subs holds  *)
(* them all, each with its own interval and promise.                       *)
(***************************************************************************)
EXTENDS Integers, Sequences, FiniteSets

\* ---------------------------------------------------------------- bounds
\* what the timer and the user start during one life of the page: ticks of
\* the periodic refresh and submissions opened, taken together
MaxStarts == 2
\* campaigns the contract reports (get-campaign-count)
MaxCampaigns == 1
\* status lookups of one transaction that may be in flight together
MaxInFlight == 2
\* handleCloseCampaign calls rejected by the entry guard
MaxRejects == 1
\* submissions the user signs in the wallet, each polled from then on
MaxSigned == 1
\* get-campaign calls of the refresh that is followed on its own
MaxBatch == 3

\* ------------------------------------------------------ program constants
\* waitForTransaction: const maxRetries = 15
maxRetries == 15
\* parseCampaign / fetchAllData: micro-units per display unit (1_000_000)
MicroPerUnit == 1000000

\* null of user
Null == "null"
\* null of closingCampaign (campaign ids are 0, 1, ...)
NoCampaign == -1

\* ------------------------------------------------------------- the chain
\* user.profile.stxAddress.testnet of the wallet session
SessionAddress == "ST1OWNER"

\* A JS number that is n / 1_000_000 for a natural n, kept exactly as its
\* whole units and its remaining micro-units.
DivMicro(n) == [units |-> n \div MicroPerUnit, micro |-> n % MicroPerUnit]

\* a >= b on such numbers
NumGE(a, b) == \/ a.units > b.units
               \/ a.units = b.units /\ a.micro >= b.micro

\* Math.round(a * 1_000_000)
RoundMicro(a) == a.units * MicroPerUnit + a.micro

VARIABLES
  mounted,          \* "new" | "mounted" | "unmounted": life of the component
  user,             \* useState user: Null or the loaded user data
  campaigns,        \* useState campaigns: sequence of Campaign
  globalStats,      \* useState globalStats
  loading,          \* useState loading
  closingCampaign,  \* useState closingCampaign: NoCampaign or a campaign id
  refreshTimer,     \* the 30 s setInterval(fetchAllData) is registered
  ticks,            \* periodic ticks fired so far
  runs,             \* fetchAllData runs, in the order they were started
  subs,             \* the submissions opened so far, in the order of opening
  statsRun,         \* index in runs of the run that wrote globalStats (0: none)
  campaignsRun,     \* index in runs of the run that wrote campaigns (0: none)
  rejected,         \* handleCloseCampaign calls rejected by the entry guard
  lastAlert,        \* text of the last alert() shown
  call              \* the helper call a specification follows on its own

vars == <<mounted, user, campaigns, globalStats, loading, closingCampaign,
          refreshTimer, ticks, runs, subs, statsRun, campaignsRun, rejected,
          lastAlert, call>>

\* ------------------------------------------------------------ parsing
\* Raw Clarity tuples as cvToJSON gives them: a function from the field
\* names that are present to their values.
Has(d, f) == f \in DOMAIN d

jNum(d, f) == IF Has(d, f) THEN d[f] ELSE 0
jStr(d, f) == IF Has(d, f) THEN d[f] ELSE ""
jBool(d, f) == IF Has(d, f) THEN d[f] ELSE FALSE

\* 'Campaign ${id}' is written with single quotes in the source: the text is
\* not interpolated.
TitleFallback == "Campaign ${id}"

parseCampaign(d, id) ==
  [ id          |-> id,
    title       |-> IF jStr(d, "title") # "" THEN jStr(d, "title") ELSE TitleFallback,
    description |-> IF jStr(d, "description") # "" THEN jStr(d, "description") ELSE TitleFallback,
    goal        |-> DivMicro(jNum(d, "goal")),
    total       |-> DivMicro(jNum(d, "total")),
    deadline    |-> jNum(d, "deadline"),
    owner       |-> IF Has(d, "owner") THEN d["owner"] ELSE "",
    active      |-> jBool(d, "active"),
    successful  |-> jBool(d, "successful"),
    withdrawn   |-> jBool(d, "withdrawn"),
    finalized   |-> jBool(d, "finalized") ]

\* --------------------------------------------------- deadline display
\* const unixThreshold = 1_000_000_000
unixThreshold == 1000000000

\* null of currentBlockHeight (heights are 1, 2, ...: fetchTip, line 140,
\* stores only a truthy stacks_tip_height)
NoHeight == -1

\* A JS number of milliseconds that is count * unit, kept as its two factors
\* (deadline * 1000 and blocksRemaining * 10 * 60 * 1000 are beyond the
\* integers TLC computes with).
Millis(count, unit) == [count |-> count, unit |-> unit]

\* The texts formatDeadlineDisplay returns, by their fixed part: ms is the
\* instant toLocaleString() prints, since the epoch for "date" and ahead of
\* Date.now() for "est, block"; block is the number printed.
NoDeadlineText == [kind |-> "No deadline", ms |-> Millis(0, 0), block |-> 0]
DateText(ms) == [kind |-> "date", ms |-> ms, block |-> 0]
EstimateText(ms, block) == [kind |-> "est, block", ms |-> ms, block |-> block]
BlockText(block) == [kind |-> "Block #", ms |-> Millis(0, 0), block |-> block]

\* line 94: currentBlockHeight && deadline >= currentBlockHeight
CanEstimateStrictly(deadline, currentBlockHeight) ==
  /\ currentBlockHeight # NoHeight
  /\ currentBlockHeight # 0
  /\ deadline > currentBlockHeight

CanEstimate(deadline, currentBlockHeight) ==
  /\ currentBlockHeight # NoHeight
  /\ currentBlockHeight # 0
  /\ deadline >= currentBlockHeight

\* lines 84-105
formatDeadlineDisplay(deadline, currentBlockHeight) ==
  IF deadline = 0 \/ deadline <= 0 THEN NoDeadlineText
  ELSE IF deadline > unixThreshold THEN DateText(Millis(deadline, 1000))
  ELSE IF CanEstimate(deadline, currentBlockHeight)
       THEN LET blocksRemaining == deadline - currentBlockHeight
                estMs == Millis(blocksRemaining, 10 * 60 * 1000)
            IN  EstimateText(estMs, deadline)
       ELSE BlockText(deadline)

\* ------------------------------------------------- answers of the chain
\* get-campaign answers the model draws from. decodes = FALSE is an answer
\* cvToJSON / parseCampaign throws on.
RawOwnMet ==
  [ title |-> "Well", description |-> "A well", goal |-> 100000000,
    total |-> 150000000, deadline |-> 500, owner |-> "ST1OWNER",
    active |-> TRUE, successful |-> TRUE, withdrawn |-> FALSE,
    finalized |-> FALSE ]

RawOther ==
  [ title |-> "Road", description |-> "A road", goal |-> 100000000,
    total |-> 50000000, deadline |-> 1700000000, owner |-> "ST2OTHER",
    active |-> TRUE, successful |-> FALSE, withdrawn |-> FALSE,
    finalized |-> FALSE ]

\* a record the page has no say over: withdrawn and still active
RawTaken ==
  [ title |-> "Hall", description |-> "A hall", goal |-> 100000000,
    total |-> 120000000, deadline |-> 400, owner |-> "ST1OWNER",
    active |-> TRUE, successful |-> TRUE, withdrawn |-> TRUE,
    finalized |-> TRUE ]

CampaignAnswers ==
  { [decodes |-> TRUE, tuple |-> RawOwnMet],
    [decodes |-> TRUE, tuple |-> RawTaken],
    [decodes |-> TRUE, tuple |-> RawOther],
    [decodes |-> FALSE, tuple |-> RawOther] }

\* Answers of the four statistic calls, by the campaign count they report.
StatsAnswer(n) ==
  [ totalSTX |-> 200500000 * n, totalContributors |-> 3 * n,
    activeCampaigns |-> n, campaignCount |-> n ]

StatsAnswers == { StatsAnswer(n) : n \in 0..MaxCampaigns }

CampaignBatches(count) == [1..count -> CampaignAnswers]

\* ------------------------------------------------------------ page state
InitialStats ==
  [ totalRaised |-> DivMicro(0), totalContributors |-> 0,
    activeCampaigns |-> 0, totalCampaigns |-> 0 ]

\* A state setter of the component: React drops updates of an unmounted
\* component.
SetState(old, new) == IF mounted = "mounted" THEN new ELSE old

\* No helper is followed on its own.
NoCall == [fn |-> "none"]

\* A submission before handleCloseCampaign has filled it in.
IdleSub ==
  [ campaign       |-> NoCampaign,
    functionName   |-> "none",
    postConditions |-> << >>,
    state          |-> "idle",
    timer          |-> FALSE,     \* the 5 s interval is registered
    inflight       |-> 0,         \* status lookups issued and not answered
    retries        |-> 0,         \* let retries
    lookups        |-> 0,         \* status lookups issued so far
    settled        |-> "pending", \* the promise of waitForTransaction
    settledBy      |-> "none",    \* what settled it
    settledAt      |-> 0,         \* the number of the check that settled it
    refreshes      |-> 0,         \* fetchAllData calls of onFinish
    notice         |-> "none" ]   \* outcome alert shown

Init ==
  /\ mounted = "new"
  /\ user = Null
  /\ campaigns = <<>>
  /\ globalStats = InitialStats
  /\ loading = TRUE
  /\ closingCampaign = NoCampaign
  /\ refreshTimer = FALSE
  /\ ticks = 0
  /\ runs = <<>>
  /\ subs = <<>>
  /\ statsRun = 0
  /\ campaignsRun = 0
  /\ rejected = 0
  /\ lastAlert = "none"
  /\ call = NoCall

\* ----------------------------------------------------------- fetchAllData
\* origin: "page" for the mount effect and the periodic timer, "onFinish"
\* for the refresh that onFinish of a submission awaits; caller is then the
\* index of that submission in subs (0 for "page").
\* got: the get-campaign answers the run decoded (none yet).
NewRun(origin, caller) ==
  [ phase |-> "stats", count |-> 0, origin |-> origin, caller |-> caller,
    before |-> [stats |-> globalStats, campaigns |-> campaigns],
    got |-> <<>> ]

\* A finished run keeps only how it ended and what it decoded.
EndedRun(run, how) ==
  [ phase |-> how, count |-> 0, origin |-> run.origin,
    caller |-> run.caller,
    before |-> [stats |-> InitialStats, campaigns |-> <<>>],
    got |-> run.got ]

\* lines 206-211
StatsOf(ans) ==
  [ totalRaised |-> DivMicro(ans.totalSTX),
    totalContributors |-> ans.totalContributors,
    activeCampaigns |-> ans.activeCampaigns,
    totalCampaigns |-> ans.campaignCount ]

\* lines 231-241: map with a per-campaign try/catch, then drop the nulls
RECURSIVE FetchedCampaignsRenumbered(_, _)
FetchedCampaignsRenumbered(answers, n) ==
  IF n = 0 THEN <<>>
  ELSE IF answers[n].decodes
       THEN LET before == FetchedCampaignsRenumbered(answers, n - 1)
            IN  Append(before, parseCampaign(answers[n].tuple, Len(before)))
       ELSE FetchedCampaignsRenumbered(answers, n - 1)

RECURSIVE FetchedCampaigns(_, _)
FetchedCampaigns(answers, n) ==
  IF n = 0 THEN <<>>
  ELSE IF answers[n].decodes
       THEN Append(FetchedCampaigns(answers, n - 1),
                   parseCampaign(answers[n].tuple, n - 1))
       ELSE FetchedCampaigns(answers, n - 1)

SuccessAlert == "Campaign finalized successfully!"
ConfirmFailedAlert == "Transaction confirmation failed. Please check the explorer."
BroadcastAlert == "Transaction broadcasted! Waiting for confirmation..."
OpenFailedAlert == "Failed to finalize campaign. Please try again."
ConnectAlert == "Please connect your wallet first"
OwnerAlert == "Only the campaign owner can finalize this campaign"

\* onFinish, lines 342-343: fetchAllData never rejects, so when the awaited
\* run of the submission ends, in either way, the success alert follows.
AfterRefresh(run) ==
  IF run.origin = "page"
  THEN /\ UNCHANGED <<subs, lastAlert>>
  ELSE /\ subs' = [subs EXCEPT ![run.caller].notice = "success"]
       /\ lastAlert' = SuccessAlert

\* Starting a run: setLoading(true) and the four statistic calls are issued.
StartRun(origin, caller) ==
  /\ runs' = Append(runs, NewRun(origin, caller))
  /\ loading' = SetState(loading, TRUE)

\* The three mount effects, lines 121-147: load the session, start the first
\* fetchAllData and register the 30 s interval.
Mount ==
  /\ mounted = "new"
  /\ mounted' = "mounted"
  /\ \E signedIn \in BOOLEAN :
       user' = IF signedIn THEN SessionAddress ELSE Null
  /\ runs' = Append(runs, NewRun("page", 0))
  /\ loading' = TRUE
  /\ refreshTimer' = TRUE
  /\ UNCHANGED <<campaigns, globalStats, closingCampaign, ticks, subs,
                 statsRun, campaignsRun, rejected, lastAlert, call>>

\* The cleanup of the effect at lines 129-132: clearInterval(interval).
\* Nothing else is cleaned up.
Unmount ==
  /\ mounted = "mounted"
  /\ mounted' = "unmounted"
  /\ refreshTimer' = FALSE
  /\ UNCHANGED <<user, campaigns, globalStats, loading, closingCampaign,
                 ticks, runs, subs, statsRun, campaignsRun, rejected,
                 lastAlert, call>>

\* setInterval(fetchAllData, 30000) fires.
RefreshTick ==
  /\ refreshTimer
  /\ ticks + Len(subs) < MaxStarts
  /\ ticks' = ticks + 1
  /\ StartRun("page", 0)
  /\ UNCHANGED <<mounted, user, campaigns, globalStats, closingCampaign,
                 refreshTimer, subs, statsRun, campaignsRun, rejected,
                 lastAlert, call>>

\* Promise.all of the four statistic calls resolves (line 170): lines
\* 206-228. With a count of 0 the second Promise.all is already resolved and
\* lines 230-248 run in the same task.
StatsReturn(r) ==
  /\ runs[r].phase = "stats"
  /\ \E ans \in StatsAnswers :
       /\ globalStats' = SetState(globalStats, StatsOf(ans))
       /\ statsRun' = SetState(statsRun, r)
       /\ IF ans.campaignCount = 0
          THEN /\ campaigns' = SetState(campaigns, <<>>)
               /\ campaignsRun' = SetState(campaignsRun, r)
               /\ loading' = SetState(loading, FALSE)
               /\ runs' = [runs EXCEPT ![r] = EndedRun(@, "done")]
               /\ AfterRefresh(runs[r])
          ELSE /\ runs' = [runs EXCEPT ![r].phase = "campaigns",
                                       ![r].count = ans.campaignCount]
               /\ UNCHANGED <<campaigns, campaignsRun, loading, subs,
                              lastAlert>>
  /\ UNCHANGED <<mounted, user, closingCampaign, refreshTimer, ticks,
                 rejected, call>>

\* One of the statistic calls rejects: catch (line 245) and finally.
StatsFail(r) ==
  /\ runs[r].phase = "stats"
  /\ loading' = SetState(loading, FALSE)
  /\ runs' = [runs EXCEPT ![r] = EndedRun(@, "failed")]
  /\ AfterRefresh(runs[r])
  /\ UNCHANGED <<mounted, user, campaigns, globalStats, closingCampaign,
                 refreshTimer, ticks, statsRun, campaignsRun, rejected, call>>

\* Promise.all of the get-campaign calls resolves: lines 230-248.
CampaignsReturn(r) ==
  /\ runs[r].phase = "campaigns"
  /\ \E answers \in CampaignBatches(runs[r].count) :
       /\ campaigns' = SetState(campaigns,
                                FetchedCampaigns(answers, runs[r].count))
       /\ runs' = [runs EXCEPT ![r] = EndedRun([@ EXCEPT !.got = answers],
                                               "done")]
  /\ campaignsRun' = SetState(campaignsRun, r)
  /\ loading' = SetState(loading, FALSE)
  /\ AfterRefresh(runs[r])
  /\ UNCHANGED <<mounted, user, globalStats, closingCampaign, refreshTimer,
                 ticks, statsRun, rejected, call>>

\* One of the get-campaign calls rejects: catch and finally; globalStats was
\* already written at line 206.
CampaignsFail(r) ==
  /\ runs[r].phase = "campaigns"
  /\ loading' = SetState(loading, FALSE)
  /\ runs' = [runs EXCEPT ![r] = EndedRun(@, "failed")]
  /\ AfterRefresh(runs[r])
  /\ UNCHANGED <<mounted, user, campaigns, globalStats, closingCampaign,
                 refreshTimer, ticks, statsRun, campaignsRun, rejected, call>>

\* ------------------------------------------------------ the submission
\* tx_status values of the status endpoint
Statuses == {"pending", "success", "failed"}

\* campaigns.find(c => c.id === campaignId): index of the first match, 0 if
\* there is none
FindCampaign(campaignId) ==
  LET hits == { i \in 1..Len(campaigns) : campaigns[i].id = campaignId }
  IN  IF hits = {} THEN 0
      ELSE CHOOSE i \in hits : \A j \in hits : i <= j

\* lines 294-297
FunctionNameFromFlag(campaign) ==
  IF campaign.successful THEN "withdraw-funds" ELSE "finalize-failure"

FunctionName(campaign) ==
  IF NumGE(campaign.total, campaign.goal) THEN "withdraw-funds"
  ELSE "finalize-failure"

\* lines 313-324
PostConditionsUnscaled(campaign, functionName) ==
  IF functionName = "withdraw-funds"
  THEN << [ code |-> "LessEqual", amount |-> campaign.total.units ] >>
  ELSE << >>

PostConditions(campaign, functionName) ==
  IF functionName = "withdraw-funds"
  THEN << [ code |-> "LessEqual",
            amount |-> IF RoundMicro(campaign.total) > 0
                       THEN RoundMicro(campaign.total) ELSE 0 ] >>
  ELSE << >>

\* The submission handleCloseCampaign opens: the arguments of
\* openContractCall and the closure state of onFinish / waitForTransaction.
NewSub(campaign) ==
  [ IdleSub EXCEPT
      !.campaign = campaign.id,
      !.functionName = FunctionName(campaign),
      !.postConditions = PostConditions(campaign, FunctionName(campaign)),
      !.state = "awaiting-signature" ]

\* The control rendered for campaign id c, lines 363-365 and 475-535: only
\* for an active campaign of the signed-in user, disabled while
\* closingCampaign === campaign.id.
ControlEnabled(c) ==
  /\ mounted = "mounted"
  /\ user # Null
  /\ \E i \in 1..Len(campaigns) :
       /\ campaigns[i].id = c
       /\ campaigns[i].owner = user
       /\ campaigns[i].active
  /\ closingCampaign # c

\* The text of the button rendered in the card of a campaign of
\* userActiveCampaigns, lines 506-535; "none" when no button is rendered.
\* campaign.total > 0 is total >= one micro-unit.
ControlLabel(campaign, isClosing) ==
  IF ~campaign.active THEN "none"
  ELSE IF campaign.successful /\ ~campaign.withdrawn
       THEN IF isClosing THEN "Withdrawing..." ELSE "Withdraw Funds"
  ELSE IF NumGE(campaign.total, DivMicro(1))
       THEN IF isClosing THEN "Processing..." ELSE "Refund"
       ELSE IF isClosing THEN "Closing..." ELSE "Close"

\* line 288: campaign.owner !== user.profile.stxAddress.testnet rejects
OwnerCheckDropped(campaign) == TRUE

OwnerMatches(campaign) == campaign.owner = user

\* finally, line 358
FinallyMissing == UNCHANGED closingCampaign

Finally == closingCampaign' = SetState(closingCampaign, NoCampaign)

\* handleCloseCampaign(campaignId), lines 279-326, up to the await of
\* openContractCall. userConfirms is the answer to confirm().
handleCloseCampaign(campaignId, userConfirms) ==
  /\ mounted = "mounted"
  /\ IF user = Null
     THEN /\ rejected < MaxRejects
          /\ rejected' = rejected + 1
          /\ lastAlert' = ConnectAlert
          /\ UNCHANGED <<closingCampaign, subs>>
     ELSE IF FindCampaign(campaignId) = 0
     THEN UNCHANGED <<closingCampaign, subs, rejected, lastAlert>>
     ELSE IF ~OwnerMatches(campaigns[FindCampaign(campaignId)])
     THEN /\ rejected < MaxRejects
          /\ rejected' = rejected + 1
          /\ lastAlert' = OwnerAlert
          /\ UNCHANGED <<closingCampaign, subs>>
     ELSE IF ~userConfirms
     THEN UNCHANGED <<closingCampaign, subs, rejected, lastAlert>>
     ELSE /\ ticks + Len(subs) < MaxStarts
          /\ closingCampaign' = campaignId
          /\ subs' = Append(subs, NewSub(campaigns[FindCampaign(campaignId)]))
          /\ UNCHANGED <<rejected, lastAlert>>
  /\ UNCHANGED <<mounted, user, campaigns, globalStats, loading,
                 refreshTimer, ticks, runs, statsRun, campaignsRun, call>>

\* The handler called with any campaign id, by the control or otherwise.
CallHandler ==
  \E campaignId \in 0..MaxCampaigns, userConfirms \in BOOLEAN :
    handleCloseCampaign(campaignId, userConfirms)

\* onClick of an enabled control, lines 509 and 518.
ClickControl ==
  \E campaignId \in 0..MaxCampaigns, userConfirms \in BOOLEAN :
    /\ ControlEnabled(campaignId)
    /\ handleCloseCampaign(campaignId, userConfirms)

\* openContractCall rejects before the wallet answers (no wallet installed,
\* the request cannot be built): catch, lines 354-356, and finally.
OpenRejects(i) ==
  /\ i \in 1..Len(subs)
  /\ subs[i].state = "awaiting-signature"
  /\ subs' = [subs EXCEPT ![i].state = "threw", ![i].notice = "open-failed"]
  /\ lastAlert' = OpenFailedAlert
  /\ Finally
  /\ UNCHANGED <<mounted, user, campaigns, globalStats, loading,
                 refreshTimer, ticks, runs, statsRun, campaignsRun, rejected,
                 call>>

\* The user cancels in the wallet: onCancel, lines 349-351; openContractCall
\* then resolves and finally runs.
WalletCancelThenPolls(i) ==
  /\ i \in 1..Len(subs)
  /\ subs[i].state = "awaiting-signature"
  /\ subs' = [subs EXCEPT ![i].state = "cancelled", ![i].timer = TRUE]
  /\ Finally
  /\ UNCHANGED <<mounted, user, campaigns, globalStats, loading,
                 refreshTimer, ticks, runs, statsRun, campaignsRun, rejected,
                 lastAlert, call>>

WalletCancel(i) ==
  /\ i \in 1..Len(subs)
  /\ subs[i].state = "awaiting-signature"
  /\ subs' = [subs EXCEPT ![i].state = "cancelled"]
  /\ Finally
  /\ UNCHANGED <<mounted, user, campaigns, globalStats, loading,
                 refreshTimer, ticks, runs, statsRun, campaignsRun, rejected,
                 lastAlert, call>>

\* The submissions whose transaction the wallet has broadcast.
Signed == { i \in 1..Len(subs) :
              subs[i].state \in {"polling", "confirmed", "failed", "timed-out"} }

\* The wallet broadcasts: onFinish runs to its await of waitForTransaction
\* (lines 335-339, 253-258: the 5 s interval is registered); openContractCall
\* then resolves and finally runs.
WalletFinish(i) ==
  /\ i \in 1..Len(subs)
  /\ subs[i].state = "awaiting-signature"
  /\ Cardinality(Signed) < MaxSigned
  /\ subs' = [subs EXCEPT ![i].state = "polling", ![i].timer = TRUE]
  /\ lastAlert' = BroadcastAlert
  /\ Finally
  /\ UNCHANGED <<mounted, user, campaigns, globalStats, loading,
                 refreshTimer, ticks, runs, statsRun, campaignsRun, rejected,
                 call>>

\* The 5 s interval fires: the callback issues the status lookup, line 260.
PollTick(i) ==
  /\ i \in 1..Len(subs)
  /\ subs[i].timer
  /\ subs[i].inflight < MaxInFlight
  /\ subs' = [subs EXCEPT ![i].inflight = @ + 1, ![i].lookups = @ + 1]
  /\ UNCHANGED <<mounted, user, campaigns, globalStats, loading,
                 closingCampaign, refreshTimer, ticks, runs, statsRun,
                 campaignsRun, rejected, lastAlert, call>>

\* if (retries >= maxRetries), line 266
BudgetSpent(retries) == retries >= maxRetries

\* data.tx_status === 'success' || data.tx_status === 'failed', line 263
Resolves(status) == status \in {"success", "failed"}

\* clearInterval(interval); resolve(), lines 264-265, and, when this settles
\* the promise, onFinish going on to await fetchAllData(), line 342.
\* answered is the closure state with this answer counted.
ResolvedKeepsInterval(answered, status, open) ==
  IF open
  THEN [answered EXCEPT !.settled = "resolved", !.settledBy = status,
                        !.settledAt = answered.retries,
                        !.state = "confirmed", !.refreshes = @ + 1]
  ELSE answered

Resolved(answered, status, open) ==
  IF open
  THEN [answered EXCEPT !.timer = FALSE, !.settled = "resolved",
                        !.settledBy = status,
                        !.settledAt = answered.retries,
                        !.state = "confirmed", !.refreshes = @ + 1]
  ELSE [answered EXCEPT !.timer = FALSE]

\* clearInterval(interval); reject(new Error('Transaction timed out')), lines
\* 267-268, and, when this settles the promise, the catch of onFinish.
TimedOutWithoutReject(answered, open) == [answered EXCEPT !.timer = FALSE]

TimedOut(answered, open) ==
  IF open
  THEN [answered EXCEPT !.timer = FALSE, !.settled = "rejected",
                        !.settledBy = "timeout",
                        !.settledAt = answered.retries,
                        !.state = "timed-out", !.notice = "failure"]
  ELSE [answered EXCEPT !.timer = FALSE]

\* catch, lines 271-274: clearInterval(interval); reject(error), and, when
\* this settles the promise, the catch of onFinish. retries is not counted.
ThrownSettlesAgain(closure, open) ==
  [closure EXCEPT !.inflight = @ - 1, !.timer = FALSE,
                  !.settled = "rejected", !.settledBy = "error",
                  !.settledAt = closure.retries + 1,
                  !.state = "failed", !.notice = "failure"]

ThrownKeepsInterval(closure, open) ==
  IF open
  THEN [closure EXCEPT !.inflight = @ - 1, !.settled = "rejected",
                       !.settledBy = "error",
                       !.settledAt = closure.retries + 1,
                       !.state = "failed", !.notice = "failure"]
  ELSE [closure EXCEPT !.inflight = @ - 1]

Thrown(closure, open) ==
  IF open
  THEN [closure EXCEPT !.inflight = @ - 1, !.timer = FALSE,
                       !.settled = "rejected", !.settledBy = "error",
                       !.settledAt = closure.retries + 1,
                       !.state = "failed", !.notice = "failure"]
  ELSE [closure EXCEPT !.inflight = @ - 1, !.timer = FALSE]

\* A status lookup answers with tx_status = status: lines 261-270, and when
\* this settles the promise, the continuation of onFinish (lines 342 or
\* 344-347).
LookupReturns(i, status) ==
  /\ i \in 1..Len(subs)
  /\ subs[i].inflight > 0
  /\ LET sub == subs[i]
         open == sub.settled = "pending"
         answered == [sub EXCEPT !.inflight = @ - 1, !.retries = @ + 1]
     IN  IF Resolves(status)
         THEN /\ subs' = [subs EXCEPT ![i] = Resolved(answered, status, open)]
              /\ IF open
                 THEN StartRun("onFinish", i)
                 ELSE UNCHANGED <<runs, loading>>
              /\ UNCHANGED lastAlert
         ELSE IF BudgetSpent(sub.retries)
         THEN /\ subs' = [subs EXCEPT ![i] = TimedOut(answered, open)]
              /\ lastAlert' = IF open THEN ConfirmFailedAlert ELSE lastAlert
              /\ UNCHANGED <<runs, loading>>
         ELSE /\ subs' = [subs EXCEPT ![i] = answered]
              /\ UNCHANGED <<runs, loading, lastAlert>>
  /\ UNCHANGED <<mounted, user, campaigns, globalStats, closingCampaign,
                 refreshTimer, ticks, statsRun, campaignsRun, rejected, call>>

\* A status lookup (fetch or response.json()) throws.
LookupThrows(i) ==
  /\ i \in 1..Len(subs)
  /\ subs[i].inflight > 0
  /\ subs' = [subs EXCEPT ![i] = Thrown(@, subs[i].settled = "pending")]
  /\ lastAlert' = IF subs[i].settled = "pending" THEN ConfirmFailedAlert
                  ELSE lastAlert
  /\ UNCHANGED <<mounted, user, campaigns, globalStats, loading,
                 closingCampaign, refreshTimer, ticks, runs, statsRun,
                 campaignsRun, rejected, call>>

\* ------------------------------------------------------- specification
Next ==
  \/ Mount
  \/ Unmount
  \/ RefreshTick
  \/ \E r \in 1..Len(runs) : StatsReturn(r)
  \/ \E r \in 1..Len(runs) : StatsFail(r)
  \/ \E r \in 1..Len(runs) : CampaignsReturn(r)
  \/ \E r \in 1..Len(runs) : CampaignsFail(r)
  \/ CallHandler
  \/ ClickControl
  \/ \E i \in 1..Len(subs) : OpenRejects(i)
  \/ \E i \in 1..Len(subs) : WalletCancel(i)
  \/ \E i \in 1..Len(subs) : WalletFinish(i)
  \/ \E i \in 1..Len(subs) : PollTick(i)
  \/ \E i \in 1..Len(subs) : \E status \in Statuses : LookupReturns(i, status)
  \/ \E i \in 1..Len(subs) : LookupThrows(i)

Spec == Init /\ [][Next]_vars

\* The submission flow on a loaded page: the states the first fetchAllData
\* leaves (Mount, StatsReturn(1), CampaignsReturn(1)), and from there every
\* step of the page but the periodic tick.
InitFlow ==
  /\ mounted = "mounted"
  /\ user \in {Null, SessionAddress}
  /\ \E ans \in StatsAnswers :
       /\ globalStats = StatsOf(ans)
       /\ \E answers \in CampaignBatches(ans.campaignCount) :
            /\ campaigns = FetchedCampaigns(answers, ans.campaignCount)
            /\ runs = << [ phase |-> "done", count |-> 0,
                           origin |-> "page",
                           caller |-> 0,
                           before |-> [stats |-> InitialStats,
                                       campaigns |-> <<>>],
                           got |-> answers ] >>
  /\ loading = FALSE
  /\ closingCampaign = NoCampaign
  /\ refreshTimer = TRUE
  /\ ticks = 0
  /\ subs = <<>>
  /\ statsRun = 1
  /\ campaignsRun = 1
  /\ rejected = 0
  /\ lastAlert = "none"
  /\ call = NoCall

NextFlow ==
  \/ Unmount
  \/ \E r \in 1..Len(runs) : StatsReturn(r)
  \/ \E r \in 1..Len(runs) : StatsFail(r)
  \/ \E r \in 1..Len(runs) : CampaignsReturn(r)
  \/ \E r \in 1..Len(runs) : CampaignsFail(r)
  \/ CallHandler
  \/ ClickControl
  \/ \E i \in 1..Len(subs) : OpenRejects(i)
  \/ \E i \in 1..Len(subs) : WalletCancel(i)
  \/ \E i \in 1..Len(subs) : WalletFinish(i)
  \/ \E i \in 1..Len(subs) : PollTick(i)
  \/ \E i \in 1..Len(subs) : \E status \in Statuses : LookupReturns(i, status)
  \/ \E i \in 1..Len(subs) : LookupThrows(i)

SpecFlow == InitFlow /\ [][NextFlow]_vars

\* The polling of one broadcast transaction on its own: the owner's
\* submission for campaign 0 has been signed (CallHandler, WalletFinish), the
\* 5 s interval keeps firing while it is registered and the status endpoint
\* answers every lookup, one way or the other. The interval and the promise
\* of a transaction are its own (lines 254-258), so other submissions take no
\* part in its polling.
InitPoll ==
  /\ mounted = "mounted"
  /\ user = SessionAddress
  /\ globalStats = StatsOf(StatsAnswer(1))
  /\ campaigns = << parseCampaign(RawOwnMet, 0) >>
  /\ loading = FALSE
  /\ closingCampaign = NoCampaign
  /\ refreshTimer = TRUE
  /\ ticks = 0
  /\ runs = << [ phase |-> "done", count |-> 0, origin |-> "page",
                 caller |-> 0,
                 before |-> [stats |-> InitialStats, campaigns |-> <<>>],
                 got |-> << [decodes |-> TRUE, tuple |-> RawOwnMet] >> ] >>
  /\ subs = << [ NewSub(parseCampaign(RawOwnMet, 0))
                   EXCEPT !.state = "polling", !.timer = TRUE ] >>
  /\ statsRun = 1
  /\ campaignsRun = 1
  /\ rejected = 0
  /\ lastAlert = BroadcastAlert
  /\ call = NoCall

LookupAnswers(i) ==
  \/ \E status \in Statuses : LookupReturns(i, status)
  \/ LookupThrows(i)

NextPoll ==
  \/ Unmount
  \/ \E r \in 1..Len(runs) : StatsReturn(r)
  \/ \E r \in 1..Len(runs) : StatsFail(r)
  \/ \E r \in 1..Len(runs) : CampaignsReturn(r)
  \/ \E r \in 1..Len(runs) : CampaignsFail(r)
  \/ \E i \in 1..Len(subs) : PollTick(i)
  \/ \E i \in 1..Len(subs) : LookupAnswers(i)

SpecPollFair ==
  /\ InitPoll
  /\ [][NextPoll]_vars
  /\ WF_vars(PollTick(1))
  /\ WF_vars(LookupAnswers(1))

\* handleCloseCampaign on its own: the signed-in user's page shows one
\* campaign of theirs, whose record the chain returned with any goal, total,
\* deadline and flags, and the handler runs up to the answer of the wallet.
GoalChoices == {0, 100000000}
TotalChoices == {0, 99999999, 100000000, 150000001}
DeadlineChoices == {0, 500}

OwnRecords ==
  { [ title |-> "Well", description |-> "A well", goal |-> g, total |-> t,
      deadline |-> dl, owner |-> SessionAddress, active |-> a,
      successful |-> s, withdrawn |-> w, finalized |-> f ] :
      g \in GoalChoices, t \in TotalChoices, dl \in DeadlineChoices,
      a \in BOOLEAN, s \in BOOLEAN, w \in BOOLEAN, f \in BOOLEAN }

InitSubmit ==
  /\ mounted = "mounted"
  /\ user = SessionAddress
  /\ globalStats = StatsOf(StatsAnswer(1))
  /\ \E d \in OwnRecords :
       /\ campaigns = << parseCampaign(d, 0) >>
       /\ runs = << [ phase |-> "done", count |-> 0, origin |-> "page",
                      caller |-> 0,
                      before |-> [stats |-> InitialStats,
                                  campaigns |-> <<>>],
                      got |-> << [decodes |-> TRUE, tuple |-> d] >> ] >>
  /\ loading = FALSE
  /\ closingCampaign = NoCampaign
  /\ refreshTimer = TRUE
  /\ ticks = 0
  /\ subs = <<>>
  /\ statsRun = 1
  /\ campaignsRun = 1
  /\ rejected = 0
  /\ lastAlert = "none"
  /\ call = NoCall

NextSubmit ==
  \/ CallHandler
  \/ ClickControl
  \/ \E i \in 1..Len(subs) : OpenRejects(i)
  \/ \E i \in 1..Len(subs) : WalletCancel(i)
  \/ \E i \in 1..Len(subs) : WalletFinish(i)

SpecSubmit == InitSubmit /\ [][NextSubmit]_vars

\* One refresh on its own, from where its get-campaign calls are awaited
\* (line 230): the page has mounted, the statistic calls reported a count and
\* the calls for the indices 0 .. count - 1 are in flight.
InitReader ==
  /\ mounted = "mounted"
  /\ user \in {Null, SessionAddress}
  /\ campaigns = <<>>
  /\ loading = TRUE
  /\ closingCampaign = NoCampaign
  /\ refreshTimer = TRUE
  /\ ticks = 0
  /\ \E n \in 1..MaxBatch :
       /\ globalStats = StatsOf(StatsAnswer(n))
       /\ runs = << [ phase |-> "campaigns", count |-> n, origin |-> "page",
                      caller |-> 0,
                      before |-> [stats |-> InitialStats,
                                  campaigns |-> <<>>],
                      got |-> <<>> ] >>
  /\ subs = <<>>
  /\ statsRun = 1
  /\ campaignsRun = 0
  /\ rejected = 0
  /\ lastAlert = "none"
  /\ call = NoCall

NextReader ==
  \/ Unmount
  \/ \E r \in 1..Len(runs) : CampaignsReturn(r)
  \/ \E r \in 1..Len(runs) : CampaignsFail(r)

SpecReader == InitReader /\ [][NextReader]_vars

\* parseCampaign and formatDeadlineDisplay on their own: one call, with its
\* arguments drawn at the start; the page is not mounted.
Fields ==
  { "title", "description", "goal", "total", "deadline", "owner", "active",
    "successful", "withdrawn", "finalized" }

\* a get-campaign tuple in which only the fields of S are present
Partial(d, S) == [f \in S |-> d[f]]

ParseCalls ==
  { [ fn |-> "parseCampaign", d |-> Partial(RawOwnMet, S), id |-> i,
      result |-> << >> ] : S \in SUBSET Fields, i \in 0..MaxCampaigns }

DeadlineInputs ==
  { -1, 0, 1, 499, 500, 501, unixThreshold - 1, unixThreshold,
    unixThreshold + 1, 1700000000 }
HeightInputs == { NoHeight, 1, 500, 501, 200000 }

FormatCalls ==
  { [ fn |-> "formatDeadlineDisplay", deadline |-> dl,
      currentBlockHeight |-> h, result |-> << >> ] :
      dl \in DeadlineInputs, h \in HeightInputs }

InitHelpers ==
  /\ mounted = "new"
  /\ user = Null
  /\ campaigns = <<>>
  /\ globalStats = InitialStats
  /\ loading = TRUE
  /\ closingCampaign = NoCampaign
  /\ refreshTimer = FALSE
  /\ ticks = 0
  /\ runs = <<>>
  /\ subs = <<>>
  /\ statsRun = 0
  /\ campaignsRun = 0
  /\ rejected = 0
  /\ lastAlert = "none"
  /\ \/ call \in ParseCalls
     \/ call \in FormatCalls

PageVars ==
  <<mounted, user, campaigns, globalStats, loading, closingCampaign,
    refreshTimer, ticks, runs, subs, statsRun, campaignsRun, rejected,
    lastAlert>>

ParseCall ==
  /\ call.fn = "parseCampaign"
  /\ call.result = << >>
  /\ call' = [call EXCEPT !.result = << parseCampaign(call.d, call.id) >>]
  /\ UNCHANGED PageVars

FormatCall ==
  /\ call.fn = "formatDeadlineDisplay"
  /\ call.result = << >>
  /\ call' = [call EXCEPT !.result =
                << formatDeadlineDisplay(call.deadline,
                                         call.currentBlockHeight) >>]
  /\ UNCHANGED PageVars

NextHelpers ==
  \/ ParseCall
  \/ FormatCall

SpecHelpers == InitHelpers /\ [][NextHelpers]_vars

\* ---------------------------------------------------------------- claims
InProgress(s) == s.state \in {"awaiting-signature", "polling"}

Terminal(s) ==
  s.state \in {"confirmed", "failed", "timed-out", "cancelled", "threw"}

\* fetchAllData calls made by onFinish of submission i
OnFinishRuns(i) ==
  { r \in 1..Len(runs) : runs[r].origin = "onFinish" /\ runs[r].caller = i }

\* C1: a transaction whose status lookup answers "failed" ends in the failed
\* outcome: the failure notice, never the success notice, and no refresh.
C1_FailedStatusEndsFailed ==
  \A i \in 1..Len(subs) :
    subs[i].settledBy = "failed" =>
      /\ subs[i].state = "failed"
      /\ subs[i].notice # "success"
      /\ subs[i].refreshes = 0
      /\ OnFinishRuns(i) = {}

\* C2: while a submission for campaign c awaits the signature or is polling,
\* closingCampaign is c and the control for c is disabled, so that no second
\* submission for c is opened meanwhile.
C2_DisabledUntilTerminal ==
  \A i \in 1..Len(subs) :
    (mounted = "mounted" /\ InProgress(subs[i])) =>
      /\ closingCampaign = subs[i].campaign
      /\ ~ControlEnabled(subs[i].campaign)

\* C3: a transaction whose lookups all answer a non-terminal status is
\* looked up at most 15 times before it ends timed-out, with no refresh.
C3_TimesOutWithin15Lookups ==
  \A i \in 1..Len(subs) :
    subs[i].settledBy = "timeout" =>
      /\ subs[i].lookups <= maxRetries
      /\ subs[i].state = "timed-out"
      /\ subs[i].refreshes = 0

\* C4 as stated: when the k-th check is the first to answer "success", the
\* lookups issued are those k, the flow is confirmed and onFinish calls
\* fetchAllData exactly once.
C4_NoLookupBeyondTheSuccess ==
  \A i \in 1..Len(subs) :
    subs[i].settledBy = "success" =>
      /\ subs[i].lookups = subs[i].settledAt
      /\ subs[i].state = "confirmed"
      /\ subs[i].refreshes = 1

\* C4 as amended: for every k within the attempt budget (k <= 15), when the
\* first k-1 checks have answered a non-terminal status, so that the promise
\* is still pending with retries = k-1, and the k-th check answers "success",
\* that answer settles the promise at check k, the interval is cleared, the
\* flow is confirmed and onFinish calls fetchAllData, once; from then on no
\* lookup is issued (lookups the timer issued while that check was in flight
\* stay issued), the flow stays confirmed and no second refresh follows.
C4_SuccessStopsPollingRefreshesOnce ==
  /\ [][\A i \in 1..Len(subs) :
          (/\ subs[i].settled = "pending"
           /\ subs[i].retries + 1 <= maxRetries
           /\ LookupReturns(i, "success"))
            => /\ subs'[i].settledBy = "success"
               /\ subs'[i].settledAt = subs[i].retries + 1
               /\ ~subs'[i].timer
               /\ subs'[i].state = "confirmed"
               /\ subs'[i].refreshes = 1
               /\ Len(runs') = Len(runs) + 1
               /\ OnFinishRuns(i)' = {Len(runs')}]_vars
  /\ [](\A i \in 1..Len(subs) :
          subs[i].settledBy = "success" =>
            /\ ~subs[i].timer
            /\ subs[i].state = "confirmed"
            /\ subs[i].refreshes = 1
            /\ Cardinality(OnFinishRuns(i)) = 1)
  /\ [][\A i \in 1..Len(subs) :
          subs[i].settledBy = "success" =>
            subs'[i].lookups = subs[i].lookups]_vars

C4_SuccessOnThirdCheck ==
  \E i \in 1..Len(subs) :
    /\ subs[i].settledBy = "success"
    /\ subs[i].settledAt = 3
    /\ subs[i].lookups = 3
    /\ subs[i].notice = "success"

\* C5: handleCloseCampaign with no signed-in user, or for a campaign of
\* another owner, opens no submission, issues no lookup and no refresh, and
\* leaves closingCampaign, campaigns and globalStats as they were: a step
\* that opens a submission is one of the signed-in owner, and a rejecting
\* step changes none of them.
C5_GuardRejectsBeforeBuilding ==
  /\ [][Len(subs') > Len(subs) =>
          /\ user # Null
          /\ \E k \in 1..Len(campaigns) :
               /\ campaigns[k].id = subs'[Len(subs')].campaign
               /\ campaigns[k].owner = user]_vars
  /\ [][rejected' # rejected =>
          UNCHANGED <<subs, runs, closingCampaign, campaigns, globalStats>>]_vars

C5_OwnerRejected == rejected > 0 /\ lastAlert = OwnerAlert

\* C6: when a fetchAllData run ends in failure, globalStats and campaigns are
\* what they were when the run started.
C6_FailedRefreshLeavesState ==
  [][\A r \in 1..Len(runs) :
       (runs[r].phase \in {"stats", "campaigns"} /\ runs'[r].phase = "failed")
         => /\ globalStats' = runs[r].before.stats
            /\ campaigns' = runs[r].before.campaigns]_vars

\* C7: the displayed globalStats and the displayed campaigns always come from
\* the same fetchAllData run.
C7_SnapshotFromOneRun ==
  (statsRun # 0 /\ campaignsRun # 0) => statsRun = campaignsRun

\* C8: after the page is unmounted no status lookup is issued and
\* fetchAllData is not called again.
C8_QuietAfterUnmount ==
  [][mounted = "unmounted" =>
       /\ \A i \in 1..Len(subs) : subs'[i].lookups = subs[i].lookups
       /\ Len(runs') = Len(runs)]_vars

\* C9: the disablement set for a submission is cleared on every path that
\* ends its wait for the wallet, the only time it is in force: the step in
\* which a submission leaves "awaiting-signature" leaves closingCampaign
\* null, and whenever closingCampaign is set it is for a submission that
\* still awaits the wallet, so a submission that has reached a terminal state
\* holds no control disabled.
C9_DisablementCleared ==
  /\ [][\A i \in 1..Len(subs) :
          (mounted = "mounted" /\ subs[i].state = "awaiting-signature"
             /\ subs'[i].state # "awaiting-signature")
            => closingCampaign' = NoCampaign]_vars
  /\ []((mounted = "mounted" /\ closingCampaign # NoCampaign) =>
          \E j \in 1..Len(subs) :
            /\ subs[j].state = "awaiting-signature"
            /\ subs[j].campaign = closingCampaign)

C9_ThrewAndCleared ==
  /\ mounted = "mounted"
  /\ \E i \in 1..Len(subs) : subs[i].state = "threw"
  /\ closingCampaign = NoCampaign

\* C10: a lookup that throws while the transaction is polled stops the
\* polling at once, whatever the number of checks so far: the interval is
\* cleared, no further lookup is issued, the flow is failed with the failure
\* notice and onFinish never calls fetchAllData.
C10_ThrowFailsAtOnce ==
  /\ [](\A i \in 1..Len(subs) :
          subs[i].settledBy = "error" =>
            /\ ~subs[i].timer
            /\ subs[i].state = "failed"
            /\ subs[i].notice = "failure"
            /\ subs[i].refreshes = 0
            /\ OnFinishRuns(i) = {})
  /\ [][\A i \in 1..Len(subs) :
          subs[i].settledBy = "error" =>
            subs'[i].lookups = subs[i].lookups]_vars
  /\ [][\A i \in 1..Len(subs) :
          (subs[i].settledBy # "error" /\ subs'[i].settledBy = "error") =>
            lastAlert' = ConfirmFailedAlert]_vars

C10_ThrowOnThirdCheck ==
  \E i \in 1..Len(subs) :
    /\ subs[i].settledBy = "error"
    /\ subs[i].settledAt = 3
    /\ subs[i].lookups = 3

\* The campaign submission s was opened for.
Submitted(s) == campaigns[FindCampaign(s.campaign)]

\* a number of display units, in micro-units
InMicro(a) == a.units * MicroPerUnit + a.micro

\* C11: the function of an opened submission is "withdraw-funds" exactly when
\* the displayed total of its campaign is at least the goal and
\* "finalize-failure" otherwise, whatever successful, withdrawn, active and
\* deadline are.
C11_FunctionFollowsTotalAndGoal ==
  \A i \in 1..Len(subs) :
    /\ subs[i].functionName \in {"withdraw-funds", "finalize-failure"}
    /\ subs[i].functionName = "withdraw-funds"
         <=> InMicro(Submitted(subs[i]).total) >= InMicro(Submitted(subs[i]).goal)

\* a submission whose flags point the other way than total and goal
C11_FlagsDisagree ==
  \E i \in 1..Len(subs) :
    /\ subs[i].state = "awaiting-signature"
    /\ subs[i].functionName = "finalize-failure"
    /\ Submitted(subs[i]).successful
    /\ ~Submitted(subs[i]).active
    /\ Submitted(subs[i]).withdrawn
    /\ Submitted(subs[i]).deadline = 0

\* C12: a "withdraw-funds" submission carries exactly one post-condition, the
\* contract sends at most N micro-units, where N is the displayed total times
\* 1,000,000 as a whole number, never negative; a "finalize-failure"
\* submission carries no post-condition.
C12_PostConditionCapsAtTotal ==
  \A i \in 1..Len(subs) :
    IF subs[i].functionName = "withdraw-funds"
    THEN /\ Len(subs[i].postConditions) = 1
         /\ subs[i].postConditions[1].code = "LessEqual"
         /\ subs[i].postConditions[1].amount >= 0
         /\ DivMicro(subs[i].postConditions[1].amount)
              = Submitted(subs[i]).total
    ELSE subs[i].postConditions = << >>

C12_CapWithFraction ==
  \E i \in 1..Len(subs) :
    /\ subs[i].state = "awaiting-signature"
    /\ subs[i].functionName = "withdraw-funds"
    /\ Submitted(subs[i]).total = [units |-> 150, micro |-> 1]
    /\ subs[i].postConditions[1].amount = 150000001

\* C13: when the user cancels in the wallet the submission ends cancelled and
\* nothing follows: no status lookup is issued for it, then or later, its
\* onFinish calls no fetchAllData, it shows no notice, the step leaves
\* campaigns and globalStats as they were, the cancelled submission never
\* changes again, and while every submission made is a cancelled one no step
\* changes campaigns or globalStats or starts a refresh.
C13_CancelEndsTheFlow ==
  /\ [](\A i \in 1..Len(subs) :
          subs[i].state = "cancelled" =>
            /\ subs[i].lookups = 0
            /\ subs[i].inflight = 0
            /\ ~subs[i].timer
            /\ subs[i].settled = "pending"
            /\ subs[i].refreshes = 0
            /\ subs[i].notice = "none"
            /\ OnFinishRuns(i) = {})
  /\ [][\A i \in 1..Len(subs) :
          (subs[i].state # "cancelled" /\ subs'[i].state = "cancelled") =>
            /\ subs[i].state = "awaiting-signature"
            /\ UNCHANGED <<campaigns, globalStats, runs, loading,
                           lastAlert>>]_vars
  /\ [][\A i \in 1..Len(subs) :
          subs[i].state = "cancelled" => subs'[i] = subs[i]]_vars
  /\ [][(Len(subs) > 0
          /\ \A i \in 1..Len(subs) : subs[i].state = "cancelled") =>
          UNCHANGED <<campaigns, globalStats, runs>>]_vars

C13_CancelledAndReleased ==
  /\ mounted = "mounted"
  /\ closingCampaign = NoCampaign
  /\ \E i \in 1..Len(subs) :
       /\ subs[i].state = "cancelled"
       /\ subs[i].functionName = "withdraw-funds"

\* the value the claim names for a field that is missing
ZeroOf(f) ==
  IF f \in {"goal", "total"} THEN DivMicro(0)
  ELSE IF f = "deadline" THEN 0
  ELSE IF f \in {"title", "description", "owner"} THEN ""
  ELSE FALSE

\* C14: parseCampaign of a record with any fields missing returns a Campaign
\* in which every missing field holds its zero value: 0 for goal, total and
\* deadline, "" for title, description and owner, FALSE for the four flags.
C14_MissingFieldsAreZero ==
  (call.fn = "parseCampaign" /\ call.result # << >>) =>
    \A f \in Fields \ DOMAIN call.d :
      call.result[1][f] = ZeroOf(f)

\* C17: formatDeadlineDisplay gives "No deadline" for a deadline <= 0; the
\* date and time of the deadline, taken as Unix seconds, for a deadline above
\* 1,000,000,000; for a block-height deadline with a known current height
\* that is not past it, an estimate 10 minutes ahead per remaining block that
\* names "block <deadline>"; and "Block #<deadline>" for every other
\* block-height deadline (height unknown, or past the deadline).
C17_DeadlineDisplayCases ==
  (call.fn = "formatDeadlineDisplay" /\ call.result # << >>) =>
    LET dl == call.deadline
        h  == call.currentBlockHeight
        text == call.result[1]
        isBlock == dl > 0 /\ dl <= 1000000000
    IN  /\ dl <= 0 => text.kind = "No deadline"
        /\ dl > 1000000000 =>
             /\ text.kind = "date"
             /\ text.ms.count = dl
             /\ text.ms.unit = 1000
        /\ (isBlock /\ h # NoHeight /\ h <= dl) =>
             /\ text.kind = "est, block"
             /\ text.block = dl
             /\ text.ms.count = dl - h
             /\ text.ms.unit = 10 * 60000
        /\ (isBlock /\ (h = NoHeight \/ h > dl)) =>
             /\ text.kind = "Block #"
             /\ text.block = dl

\* the current height is the deadline itself
C17_EstimateAtTheDeadline ==
  /\ call.fn = "formatDeadlineDisplay"
  /\ call.deadline = 500
  /\ call.currentBlockHeight = 500
  /\ call.result = << EstimateText(Millis(0, 600000), 500) >>

\* C15: every campaign of the displayed list that is withdrawn is not active,
\* whatever records the get-campaign calls returned.
C15_WithdrawnIsNotActive ==
  \A i \in 1..Len(campaigns) :
    campaigns[i].withdrawn => ~campaigns[i].active

\* list holds the campaigns of the n answers that decode and no other, each
\* with its own index as id, in the order of the indices
ExactlyTheDecoded(list, answers, n) ==
  LET decoded == { i \in 1..n : answers[i].decodes }
  IN  /\ Len(list) = Cardinality(decoded)
      /\ \A k \in 1..Len(list) :
           /\ list[k].id + 1 \in decoded
           /\ list[k] = parseCampaign(answers[list[k].id + 1].tuple,
                                      list[k].id)
      /\ \A k \in 1..(Len(list) - 1) : list[k].id < list[k + 1].id

\* C16: when all get-campaign calls of a refresh return, the refresh ends
\* normally even if some answers fail to decode, and the displayed list
\* becomes exactly the campaigns that decoded, each with its own index as id;
\* the indices that failed are dropped.
C16_FailedDecodesAreDropped ==
  [][\A r \in 1..Len(runs) :
       (mounted = "mounted" /\ runs[r].phase = "campaigns"
          /\ runs'[r].phase = "done")
         => /\ Len(runs'[r].got) = runs[r].count
            /\ ExactlyTheDecoded(campaigns', runs'[r].got, runs[r].count)
            /\ ~loading']_vars

\* index 0 failed to decode, index 1 is shown with id 1
C16_SecondKeptFirstDropped ==
  /\ mounted = "mounted"
  /\ runs[1].phase = "done"
  /\ Len(runs[1].got) = 2
  /\ ~runs[1].got[1].decodes
  /\ runs[1].got[2].decodes
  /\ Len(campaigns) = 1
  /\ campaigns[1].id = 1

\* C18: with a timer that keeps firing and lookups that are all answered, a
\* transaction that is polled is eventually confirmed, failed or timed-out,
\* also when every answer is "pending".
C18_PollingEnds ==
  (subs[1].state = "polling") ~>
    (subs[1].state \in {"confirmed", "failed", "timed-out"} /\ ~subs[1].timer)

\* every answer was "pending" until the budget was spent
C18_GaveUpOnPending ==
  \E i \in 1..Len(subs) :
    /\ subs[i].state = "timed-out"
    /\ subs[i].settledBy = "timeout"
    /\ subs[i].settledAt = maxRetries + 1
    /\ ~subs[i].timer

\* C19: the promise of waitForTransaction settles at most once, also when
\* answers of overlapping lookups arrive after it has settled: what settled
\* it stays, onFinish calls fetchAllData at most once and not after a
\* failure notice, an outcome notice, once shown for a transaction, is the
\* only one for it, and every outcome alert shown is the first outcome notice
\* of some transaction.
C19_OneOutcomePerTransaction ==
  /\ [][\A i \in 1..Len(subs) :
          subs[i].settled # "pending" =>
            /\ subs'[i].settled = subs[i].settled
            /\ subs'[i].settledBy = subs[i].settledBy
            /\ subs'[i].settledAt = subs[i].settledAt
            /\ subs'[i].state = subs[i].state
            /\ subs'[i].refreshes = subs[i].refreshes
            /\ OnFinishRuns(i)' = OnFinishRuns(i)]_vars
  /\ [][\A i \in 1..Len(subs) :
          subs[i].notice \in {"success", "failure"} =>
            subs'[i].notice = subs[i].notice]_vars
  /\ [][(lastAlert' # lastAlert
          /\ lastAlert' \in {SuccessAlert, ConfirmFailedAlert}) =>
          \E i \in 1..Len(subs) :
            /\ subs[i].notice \notin {"success", "failure"}
            /\ subs'[i].notice \in {"success", "failure"}]_vars
  /\ [](\A i \in 1..Len(subs) :
          /\ subs[i].refreshes <= 1
          /\ Cardinality(OnFinishRuns(i)) = subs[i].refreshes
          /\ subs[i].settled = "rejected" =>
               (subs[i].refreshes = 0 /\ subs[i].notice = "failure")
          /\ subs[i].notice = "success" => subs[i].settled = "resolved")

\* the first check settled it; the answer of a lookup issued meanwhile came
\* after that
C19_LateAnswerAfterSuccess ==
  \E i \in 1..Len(subs) :
    /\ subs[i].settled = "resolved"
    /\ subs[i].settledAt = 1
    /\ subs[i].lookups = 2
    /\ subs[i].retries = 2
    /\ subs[i].inflight = 0
    /\ subs[i].notice = "success"

\* fetchAllData runs that have not ended
InFlightRuns == { r \in 1..Len(runs) : runs[r].phase \in {"stats", "campaigns"} }

\* C20: on the mounted page loading is TRUE while at least one fetchAllData
\* run is in flight, overlapping runs included, and FALSE when none is, also
\* after a run that failed.
C20_LoadingWhileAnyRunInFlight ==
  mounted = "mounted" => (loading <=> InFlightRuns # {})

\* C21: the button clicked and the function submitted agree: a submission
\* opened by the click of "Withdraw Funds" is for "withdraw-funds", one opened
\* by the click of "Refund" or "Close" is for "finalize-failure".
C21_ControlAgreesWithFunction ==
  [][\A c \in 0..MaxCampaigns :
       (ControlEnabled(c) /\ Len(subs') > Len(subs)
          /\ subs'[Len(subs')].campaign = c)
         => LET label == ControlLabel(campaigns[FindCampaign(c)], FALSE)
                opened == subs'[Len(subs')]
            IN  /\ label = "Withdraw Funds" =>
                     opened.functionName = "withdraw-funds"
                /\ label \in {"Refund", "Close"} =>
                     opened.functionName = "finalize-failure"]_vars

====
